---- MODULE Spec2Model ----
(***************************************************************************)
(* Model of js/evaluatePokerHand.js: the classification of a five-card     *)
(* poker hand.  The program is one pure function, evaluatePokerHand, and   *)
(* its helpers; the state of the model is the frame of one call: the       *)
(* argument, the locals the call computes, and its outcome (a returned     *)
(* label or a thrown error).                                               *)
(***************************************************************************)
EXTENDS Integers, Sequences, FiniteSets

VARIABLES
    hand,        \* the argument: [isArray, cards]; cards is the sequence of Card records
    rankCounts,  \* local of evaluatePokerHand: rank -> occurrences (a JS object)
    suitCounts,  \* local of evaluatePokerHand: suit -> occurrences (a JS object)
    ranks,       \* local of evaluatePokerHand: sorted keys of rankCounts
    returned,    \* the label returned, "none" before the call and after a throw
    thrown,      \* the message of the Error thrown, "none" otherwise
    pc           \* "start" before the call, "done" after it

vars == <<hand, rankCounts, suitCounts, ranks, returned, thrown, pc>>

-----------------------------------------------------------------------------
(* Constants of the program (evaluatePokerHand.js lines 25-35).            *)

TOTAL_CARDS == 5
MAX_RANK_DIFF == 4
ROYAL_TAIL_LENGTH == 4
ACE_RANK == 1
BROADWAY_START == 10
FOUR_OF_A_KIND_COUNT == 4
THREE_OF_A_KIND_COUNT == 3
PAIR_COUNT == 2
TWO_PAIR_COUNT == 2

\* [...Array(13).keys()].map(i => i + 1)
VALID_RANKS == [k \in 1..13 |-> (k - 1) + 1]

VALID_SUITS == <<"club", "spade", "diamond", "heart">>

ERR_CARDINALITY == "A valid poker hand must have exactly 5 cards."
ERR_RANK == "Invalid rank detected."
ERR_SUIT == "Invalid suit detected."

-----------------------------------------------------------------------------
(* JavaScript built-ins the program uses.                                  *)

\* Array.prototype.includes
Includes(seq, x) == \E i \in 1..Len(seq) : seq[i] = x

SetMin(S) == CHOOSE x \in S : \A y \in S : x <= y

SetMax(S) == CHOOSE x \in S : \A y \in S : y <= x

\* Object.keys of an object whose keys are all integer-like: ascending
\* numeric order, whatever the insertion order was.
RECURSIVE KeysAscending(_)
KeysAscending(S) ==
    IF S = {} THEN <<>>
    ELSE LET m == SetMin(S) IN <<m>> \o KeysAscending(S \ {m})

ObjectKeys(obj) == KeysAscending(DOMAIN obj)

\* Object.values: the values in the order of Object.keys.
ObjectValues(obj) ==
    LET keys == ObjectKeys(obj) IN [i \in 1..Len(keys) |-> obj[keys[i]]]

\* Array.prototype.sort((a, b) => a - b): ascending, duplicates kept.
RECURSIVE InsertSorted(_, _)
InsertSorted(seq, x) ==
    IF seq = <<>> THEN <<x>>
    ELSE IF x < Head(seq) THEN <<x>> \o seq
    ELSE <<Head(seq)>> \o InsertSorted(Tail(seq), x)

RECURSIVE SortNumeric(_)
SortNumeric(seq) ==
    IF seq = <<>> THEN <<>>
    ELSE InsertSorted(SortNumeric(SubSeq(seq, 1, Len(seq) - 1)), seq[Len(seq)])

\* Array.prototype.slice(-n): the last n elements, the whole array if shorter.
SliceLast(seq, n) ==
    IF Len(seq) <= n THEN seq ELSE SubSeq(seq, Len(seq) - n + 1, Len(seq))

\* Math.max(...Object.values(obj)) of a non-empty object of numbers.
MathMaxValues(obj) == SetMax({obj[k] : k \in DOMAIN obj})

-----------------------------------------------------------------------------
(* validateHand (lines 124-137): "ok", or the message of the Error thrown. *)

\* validateCards with the two tests in two loops: every rank, then every suit.
validateCardsRanksFirst(cards, i) ==
    IF \E k \in i..Len(cards) : ~Includes(VALID_RANKS, cards[k].rank) THEN ERR_RANK
    ELSE IF \E k \in i..Len(cards) : ~Includes(VALID_SUITS, cards[k].suit) THEN ERR_SUIT
    ELSE "ok"

\* for (let { rank, suit } of hand): the cards from index i on.
RECURSIVE validateCards(_, _)
validateCards(cards, i) ==
    IF i > Len(cards) THEN "ok"
    ELSE IF ~Includes(VALID_RANKS, cards[i].rank) THEN ERR_RANK
    ELSE IF ~Includes(VALID_SUITS, cards[i].suit) THEN ERR_SUIT
    ELSE validateCards(cards, i + 1)

\* validateHand without the test of the hand's length.
validateHandAnyLength(h) ==
    IF ~h.isArray THEN ERR_CARDINALITY ELSE validateCards(h.cards, 1)

validateHand(h) ==
    IF ~h.isArray \/ Len(h.cards) # TOTAL_CARDS THEN ERR_CARDINALITY
    ELSE validateCards(h.cards, 1)

-----------------------------------------------------------------------------
(* countRanksAndSuits (lines 73-83).                                       *)

\* Increment as obj[key] = (obj[key] + 1) || 0: the first occurrence counts 0.
IncrementFromZero(obj, key) ==
    [k \in (DOMAIN obj) \cup {key} |->
        IF k = key
        THEN (IF key \in DOMAIN obj THEN obj[key] + 1 ELSE 0)
        ELSE obj[k]]

\* obj[key] = (obj[key] || 0) + 1
Increment(obj, key) ==
    [k \in (DOMAIN obj) \cup {key} |->
        IF k = key
        THEN (IF key \in DOMAIN obj THEN obj[key] ELSE 0) + 1
        ELSE obj[k]]

EmptyObject == [k \in {} |-> 0]

RECURSIVE countLoop(_, _, _)
countLoop(cards, i, acc) ==
    IF i > Len(cards) THEN acc
    ELSE countLoop(cards, i + 1,
            [rankCounts |-> Increment(acc.rankCounts, cards[i].rank),
             suitCounts |-> Increment(acc.suitCounts, cards[i].suit)])

\* countRanksAndSuits with a loop that starts at the second card.
countRanksAndSuitsSkipFirst(cards) ==
    countLoop(cards, 2, [rankCounts |-> EmptyObject, suitCounts |-> EmptyObject])

countRanksAndSuits(cards) ==
    countLoop(cards, 1, [rankCounts |-> EmptyObject, suitCounts |-> EmptyObject])

-----------------------------------------------------------------------------
(* The predicates (lines 91-115).                                          *)

isFlush(sc) == MathMaxValues(sc) = TOTAL_CARDS

\* isRoyal without the test for the Ace.
isRoyalNoAce(rs) ==
    LET tail == SliceLast(rs, ROYAL_TAIL_LENGTH)
    IN \A i \in 1..Len(tail) : tail[i] = BROADWAY_START + (i - 1)

isRoyal(rs) ==
    /\ Includes(rs, ACE_RANK)
    /\ LET tail == SliceLast(rs, ROYAL_TAIL_LENGTH)
       IN \A i \in 1..Len(tail) : tail[i] = BROADWAY_START + (i - 1)

\* isStraight without the Broadway case.
isStraightNoBroadway(rs) ==
    Len(rs) = TOTAL_CARDS /\ rs[TOTAL_CARDS] - rs[1] = MAX_RANK_DIFF

\* isStraight with the Ace never low.
isStraightAceHigh(rs) ==
    (Len(rs) = TOTAL_CARDS /\ rs[1] # ACE_RANK /\ rs[TOTAL_CARDS] - rs[1] = MAX_RANK_DIFF)
    \/ isRoyal(rs)

\* isStraight comparing the last rank with the first, whatever the length.
isStraightByLast(rs) ==
    rs[Len(rs)] - rs[1] = MAX_RANK_DIFF \/ isRoyal(rs)

isStraight(rs) ==
    LET isBroadway == isRoyal(rs)
    IN (Len(rs) = TOTAL_CARDS /\ rs[TOTAL_CARDS] - rs[1] = MAX_RANK_DIFF)
       \/ isBroadway

-----------------------------------------------------------------------------
(* evaluatePokerHand (lines 37-65).                                        *)

\* Object.keys(rankCounts).map(Number).sort((a, b) => a - b)
sortedRanks(rc) == SortNumeric(ObjectKeys(rc))

\* rankFrequencies.filter(freq => freq === PAIR_COUNT).length
CountEqual(seq, v) == Cardinality({i \in 1..Len(seq) : seq[i] = v})

\* conditions with the plain flush and straight tested before their combinations.
conditionsPlainFirst(rc, sc, rs) ==
    LET rankFrequencies == ObjectValues(rc) IN
    << [cond |-> isFlush(sc), label |-> "flush"],
       [cond |-> isStraight(rs), label |-> "straight"],
       [cond |-> isFlush(sc) /\ isRoyal(rs), label |-> "royalflush"],
       [cond |-> isFlush(sc) /\ isStraight(rs), label |-> "straightflush"],
       [cond |-> Includes(rankFrequencies, FOUR_OF_A_KIND_COUNT), label |-> "fourofakind"],
       [cond |-> Includes(rankFrequencies, THREE_OF_A_KIND_COUNT)
                 /\ Includes(rankFrequencies, PAIR_COUNT), label |-> "fullhouse"],
       [cond |-> Includes(rankFrequencies, THREE_OF_A_KIND_COUNT), label |-> "threeofakind"],
       [cond |-> CountEqual(rankFrequencies, PAIR_COUNT) = TWO_PAIR_COUNT, label |-> "twopair"],
       [cond |-> Includes(rankFrequencies, PAIR_COUNT), label |-> "pair"] >>

\* conditions with two pairs tested as exactly one rank of count two.
conditionsPairFirst(rc, sc, rs) ==
    LET rankFrequencies == ObjectValues(rc) IN
    << [cond |-> isFlush(sc) /\ isRoyal(rs), label |-> "royalflush"],
       [cond |-> isFlush(sc) /\ isStraight(rs), label |-> "straightflush"],
       [cond |-> Includes(rankFrequencies, FOUR_OF_A_KIND_COUNT), label |-> "fourofakind"],
       [cond |-> Includes(rankFrequencies, THREE_OF_A_KIND_COUNT)
                 /\ Includes(rankFrequencies, PAIR_COUNT), label |-> "fullhouse"],
       [cond |-> isFlush(sc), label |-> "flush"],
       [cond |-> isStraight(rs), label |-> "straight"],
       [cond |-> Includes(rankFrequencies, THREE_OF_A_KIND_COUNT), label |-> "threeofakind"],
       [cond |-> CountEqual(rankFrequencies, PAIR_COUNT) = 1, label |-> "twopair"],
       [cond |-> Includes(rankFrequencies, PAIR_COUNT), label |-> "pair"] >>

\* The ordered list of [condition, label] pairs.
conditions(rc, sc, rs) ==
    LET rankFrequencies == ObjectValues(rc) IN
    << [cond |-> isFlush(sc) /\ isRoyal(rs), label |-> "royalflush"],
       [cond |-> isFlush(sc) /\ isStraight(rs), label |-> "straightflush"],
       [cond |-> Includes(rankFrequencies, FOUR_OF_A_KIND_COUNT), label |-> "fourofakind"],
       [cond |-> Includes(rankFrequencies, THREE_OF_A_KIND_COUNT)
                 /\ Includes(rankFrequencies, PAIR_COUNT), label |-> "fullhouse"],
       [cond |-> isFlush(sc), label |-> "flush"],
       [cond |-> isStraight(rs), label |-> "straight"],
       [cond |-> Includes(rankFrequencies, THREE_OF_A_KIND_COUNT), label |-> "threeofakind"],
       [cond |-> CountEqual(rankFrequencies, PAIR_COUNT) = TWO_PAIR_COUNT, label |-> "twopair"],
       [cond |-> Includes(rankFrequencies, PAIR_COUNT), label |-> "pair"] >>

\* for (let [conditionFunc, result] of conditions) if (conditionFunc()) return result;
\* return 'highcard';
RECURSIVE firstMatch(_, _)
firstMatch(conds, i) ==
    IF i > Len(conds) THEN "highcard"
    ELSE IF conds[i].cond THEN conds[i].label
    ELSE firstMatch(conds, i + 1)

\* The frame of one call on h: the locals and the outcome.
evaluatePokerHand(h) ==
    LET err == validateHand(h) IN
    IF err # "ok"
    THEN [rankCounts |-> EmptyObject, suitCounts |-> EmptyObject, ranks |-> <<>>,
          returned |-> "none", thrown |-> err]
    ELSE LET counts == countRanksAndSuits(h.cards)
             rs == sortedRanks(counts.rankCounts)
         IN [rankCounts |-> counts.rankCounts, suitCounts |-> counts.suitCounts,
             ranks |-> rs,
             returned |-> firstMatch(conditions(counts.rankCounts, counts.suitCounts, rs), 1),
             thrown |-> "none"]

-----------------------------------------------------------------------------
(* Inputs.                                                                 *)

\* How far outside VALID_RANKS the probed ranks go, and how far from
\* TOTAL_CARDS the probed hand lengths go.
RankOvershoot == 1
LengthOvershoot == 1

Suits == {VALID_SUITS[i] : i \in 1..Len(VALID_SUITS)}
Ranks == {VALID_RANKS[i] : i \in 1..Len(VALID_RANKS)}

MakeCards(rs, ss) == [i \in 1..Len(rs) |-> [rank |-> rs[i], suit |-> ss[i]]]

\* Valid hands, dealt in nondecreasing rank order: every multiset of five
\* ranks; the first four cards share a suit and the fifth has any suit.
From(R, r) == {x \in R : x >= r}
SuitDeals == {s \in [1..TOTAL_CARDS -> Suits] : \A i \in 2..(TOTAL_CARDS - 1) : s[i] = s[1]}
DealtFrom(h, R, S) ==
    \E a \in R : \E b \in From(R, a) : \E c \in From(R, b) : \E d \in From(R, c) :
      \E e \in From(R, d) : \E s \in S :
        h = [isArray |-> TRUE, cards |-> MakeCards(<<a, b, c, d, e>>, s)]
Dealt(h) == DealtFrom(h, Ranks, SuitDeals)

\* Malformed hands: ranks just outside the valid range, a misspelt suit.
ProbeRanks == ((1 - RankOvershoot)..0) \cup {7} \cup (14..(13 + RankOvershoot))
ProbeSuits == {"heart", "club "}
ProbeCards == [rank : ProbeRanks, suit : ProbeSuits]
FiveCardProbes == [1..TOTAL_CARDS -> ProbeCards]
LengthPool == {[rank |-> 13, suit |-> "spade"], [rank |-> 0, suit |-> "club "]}
ProbeLengths == (TOTAL_CARDS - LengthOvershoot)..(TOTAL_CARDS + LengthOvershoot)
AnyLengthProbes == UNION {[1..n -> LengthPool] : n \in ProbeLengths}

Probed(h) ==
    \/ \E c \in FiveCardProbes \cup AnyLengthProbes : h = [isArray |-> TRUE, cards |-> c]
    \/ \E c \in AnyLengthProbes : h = [isArray |-> FALSE, cards |-> c]

-----------------------------------------------------------------------------
(* The state machine: a caller holding a hand calls evaluatePokerHand.     *)

Fresh ==
    /\ rankCounts = EmptyObject
    /\ suitCounts = EmptyObject
    /\ ranks = <<>>
    /\ returned = "none"
    /\ thrown = "none"
    /\ pc = "start"

Init ==
    /\ Dealt(hand) \/ Probed(hand)
    /\ Fresh

Outcome(h) ==
    \E f \in {evaluatePokerHand(h)} :
    /\ rankCounts' = f.rankCounts
    /\ suitCounts' = f.suitCounts
    /\ ranks' = f.ranks
    /\ returned' = f.returned
    /\ thrown' = f.thrown
    /\ pc' = "done"

Call ==
    /\ pc = "start"
    /\ Outcome(hand)
    /\ UNCHANGED hand

\* The caller exchanges two neighbouring cards of a hand it has had
\* classified, and calls again.
Swap(cards, i) ==
    [k \in 1..Len(cards) |->
        IF k = i THEN cards[i + 1] ELSE IF k = i + 1 THEN cards[i] ELSE cards[k]]

CallSwapped(i) ==
    /\ pc = "done"
    /\ returned # "none"
    /\ hand' = [hand EXCEPT !.cards = Swap(hand.cards, i)]
    /\ Outcome(hand')

Next == Call

Spec == Init /\ [][Next]_vars

\* Reordered hands: the hands dealt over the ranks of the wheel and of
\* Broadway, four hearts and a heart or a spade, in every order.
PermRanks == {r \in Ranks : r <= 5 \/ r >= BROADWAY_START}
PermSuitDeals == {s \in SuitDeals : s[1] = "heart" /\ s[TOTAL_CARDS] \in {"heart", "spade"}}

InitPerm ==
    /\ DealtFrom(hand, PermRanks, PermSuitDeals)
    /\ Fresh

NextPerm ==
    \/ Call
    \/ \E i \in 1..(TOTAL_CARDS - 1) : CallSwapped(i)

SpecPerm == InitPerm /\ [][NextPerm]_vars

-----------------------------------------------------------------------------
(* The hand as the documentation describes it, independently of the code.  *)

Labels == {"highcard", "pair", "twopair", "threeofakind", "straight", "flush",
           "fullhouse", "fourofakind", "straightflush", "royalflush"}

Cards == hand.cards
Positions == 1..Len(Cards)
FiveCards == hand.isArray /\ Len(Cards) = 5
RankOk(i) == Cards[i].rank \in 1..13
SuitOk(i) == Cards[i].suit \in {"club", "spade", "diamond", "heart"}
ValidHand == FiveCards /\ \A i \in Positions : RankOk(i) /\ SuitOk(i)
Returned == pc = "done" /\ returned # "none"

RankSet == {Cards[i].rank : i \in Positions}
Occurrences(r) == Cardinality({i \in Positions : Cards[i].rank = r})
OneSuit == \A i, j \in Positions : Cards[i].suit = Cards[j].suit
Broadway == RankSet = {1, 10, 11, 12, 13}
Wheel == RankSet = {1, 2, 3, 4, 5}
Run == \E r \in 1..9 : RankSet = r..(r + 4)
SomeCount(n) == \E r \in RankSet : Occurrences(r) = n
PairRanks == {r \in RankSet : Occurrences(r) = 2}

\* The decision table of the classifier: the label of the first true predicate.
FirstTrue ==
    LET Royal == Broadway
        Straight == (Cardinality(RankSet) = 5 /\ SetMax(RankSet) - SetMin(RankSet) = 4) \/ Royal
    IN IF OneSuit /\ Royal THEN "royalflush"
       ELSE IF OneSuit /\ Straight THEN "straightflush"
       ELSE IF SomeCount(4) THEN "fourofakind"
       ELSE IF SomeCount(3) /\ SomeCount(2) THEN "fullhouse"
       ELSE IF OneSuit THEN "flush"
       ELSE IF Straight THEN "straight"
       ELSE IF SomeCount(3) THEN "threeofakind"
       ELSE IF Cardinality(PairRanks) = 2 THEN "twopair"
       ELSE IF SomeCount(2) THEN "pair"
       ELSE "highcard"

\* The error validation reports: the cardinality first, then the first
\* offending card in hand order, its rank before its suit.
FirstError ==
    IF ~FiveCards THEN ERR_CARDINALITY
    ELSE LET bad == {i \in Positions : ~RankOk(i) \/ ~SuitOk(i)} IN
         IF bad = {} THEN "none"
         ELSE IF ~RankOk(SetMin(bad)) THEN ERR_RANK
         ELSE ERR_SUIT

-----------------------------------------------------------------------------
(* The claims.                                                             *)

\* C1: for every hand that passes validation, the label returned is that of
\* the first true predicate in the order royalflush, straightflush,
\* fourofakind, fullhouse, flush, straight, threeofakind, twopair, pair, and
\* highcard when none is true; a hand that is both a flush and a straight
\* is never labelled plain flush or straight.
C1_FirstTruePredicate ==
    (pc = "done" /\ ValidHand) =>
        /\ returned = FirstTrue
        /\ (OneSuit /\ (Run \/ Broadway)) => returned \notin {"flush", "straight"}

\* A flush that is also a straight has been classified.
C1_Witness == Returned /\ OneSuit /\ Run /\ returned = "straightflush"

\* C2: the call throws and returns no label exactly when the hand does not
\* have exactly 5 cards, or some rank is outside 1..13, or some suit is not
\* one of the four; every other hand yields a label.
C2_ThrowsIffInvalid ==
    pc = "done" =>
        /\ (thrown # "none" /\ returned = "none") <=> ~ValidHand
        /\ ValidHand => (returned \in Labels /\ thrown = "none")

\* A five-card hand with a rank of 14 has been rejected.
C2_Witness ==
    /\ pc = "done" /\ thrown # "none" /\ FiveCards
    /\ \E i \in Positions : Cards[i].rank = 14
    /\ \A i \in Positions : Cards[i].rank \in 1..14 /\ SuitOk(i)

\* C3 as stated: for every valid hand whose distinct ranks are exactly
\* 1,2,3,4,5 the Straight predicate is false and the label is neither
\* straight nor straightflush.
C3_WheelNotStraight ==
    (Returned /\ Wheel) =>
        (~isStraight(ranks) /\ returned \notin {"straight", "straightflush"})

\* C3 amended: for every valid hand whose distinct ranks are exactly
\* 1,2,3,4,5 the Straight predicate is true and the label is straight, or
\* straightflush when the five cards share a suit.
C3_WheelIsStraight ==
    (Returned /\ Wheel) =>
        /\ isStraight(ranks)
        /\ returned = (IF OneSuit THEN "straightflush" ELSE "straight")

\* A wheel of mixed suits has been classified.
C3_Witness == Returned /\ Wheel /\ ~OneSuit /\ returned = "straight"

\* C4: every valid hand of mixed suits whose five ranks are in order, the
\* wheel and Broadway included, is labelled straight.
C4_MixedRunIsStraight ==
    (pc = "done" /\ ValidHand /\ ~OneSuit /\ (Run \/ Broadway)) => returned = "straight"

\* Broadway of mixed suits has been classified.
C4_Witness == Returned /\ Broadway /\ ~OneSuit /\ returned = "straight"

\* C5: the label does not depend on the order of the cards: a call on the
\* hand with two neighbouring cards exchanged returns the label the call
\* on the hand returned (every order is reached by such exchanges).
C5_OrderIrrelevant ==
    [][(pc = "done" /\ pc' = "done" /\ returned # "none") => returned' = returned]_vars

\* A straight whose cards are out of rank order has been classified.
C5_Witness ==
    /\ Returned /\ returned = "straight"
    /\ Cards[1].rank > Cards[2].rank /\ Cards[3].rank < Cards[2].rank
    /\ Cards[TOTAL_CARDS].rank = 1

C7_CountsUpToFour ==
    Returned => \A r \in DOMAIN rankCounts : rankCounts[r] \in 1..4

\* C7 amended: for every accepted hand, every count of the rank multiset
\* lies between 1 and 5.
C7_CountsUpToFive ==
    Returned => \A r \in DOMAIN rankCounts : rankCounts[r] \in 1..5

\* A hand of five cards of one rank has been counted.
C7_Witness == Returned /\ \E r \in DOMAIN rankCounts : rankCounts[r] = 5

\* C8: for every sorted list of distinct ranks of a validated hand, isRoyal
\* is true exactly of the list 1,10,11,12,13; it is false of every list of
\* fewer than 5 elements.
C8_RoyalIffBroadwayList ==
    Returned =>
        /\ isRoyal(ranks) <=> ranks = <<1, 10, 11, 12, 13>>
        /\ Len(ranks) < 5 => ~isRoyal(ranks)

\* A list of four ranks, the Ace and three of 10..13, has been tested.
C8_Witness ==
    /\ Returned /\ Len(ranks) = 4 /\ ranks[1] = 1
    /\ \A i \in 2..4 : ranks[i] \in 10..13

\* C9: for every valid hand in which some rank occurs more than once, the
\* Straight and the Royal predicates are false and the label is none of
\* straight, straightflush, royalflush.
C9_RepeatedRankNoStraight ==
    (Returned /\ \E r \in RankSet : Occurrences(r) > 1) =>
        /\ ~isStraight(ranks)
        /\ ~isRoyal(ranks)
        /\ returned \notin {"straight", "straightflush", "royalflush"}

\* A hand with a pair whose distinct ranks span four has been classified.
C9_Witness ==
    /\ Returned /\ Len(ranks) = 4 /\ ranks[4] - ranks[1] = MAX_RANK_DIFF
    /\ returned = "pair"

\* C10: a hand invalid in more than one way gets one error: the cardinality
\* error whenever it is not an array of exactly 5 cards; otherwise the
\* error of the first offending card in hand order, its rank before its
\* suit.
C10_FirstErrorReported ==
    pc = "done" => thrown = FirstError

\* A hand whose first offending card has a bad suit only, with a bad rank
\* on a later card, has been rejected for its suit.
C10_Witness ==
    /\ pc = "done" /\ FiveCards /\ thrown = ERR_SUIT
    /\ \E i, j \in Positions : i < j /\ ~SuitOk(i) /\ RankOk(i) /\ ~RankOk(j)

====
